---- MODULE Spec2Model ----
(***************************************************************************)
(* Model of InternetSpeedMonitor.PY: the AutoStartManager (is_enabled,     *)
(* enable, disable over the Windows registry, the Linux autostart          *)
(* directory and the macOS LaunchAgents directory), the tray menu's        *)
(* toggle_autostart handler, and SpeedMonitor.update_speed.                *)
(*                                                                         *)
(* The two components share no state.  AutoStartSpec runs the manager     *)
(* with backends that never raise, FaultySpec lets every backend call      *)
(* raise, SamplerSpec runs the speed monitor.                              *)
(***************************************************************************)
EXTENDS Integers, Sequences, FiniteSets

VARIABLES
    system,        \* AutoStartManager.system (platform.system())
    app_path,      \* AutoStartManager.app_path
    store,         \* the OS store the manager reads and writes
    checked,       \* autostart_action.isChecked()
    op,            \* the operation that ran last
    fault,         \* the backend call the environment made raise in it
    ret,           \* what it returned
    caught,        \* whether its except clause caught a backend error
    raised,        \* whether an error reached its caller
    warned,        \* whether it showed the QMessageBox warning
    prevOp,        \* the operation that ran before it
    storePre,      \* the store as it was before the last operation
    upload_speed,  \* SpeedMonitor.upload_speed, KB/s
    download_speed,\* SpeedMonitor.download_speed, KB/s
    last_upload,   \* SpeedMonitor.last_upload, bytes
    last_download, \* SpeedMonitor.last_download, bytes
    last_time,     \* SpeedMonitor.last_time, ms
    now,           \* the clock at the last update_speed call, ms
    net_io,        \* what psutil.net_io_counters() gave that call
    read_ok,       \* whether psutil.net_io_counters() returned in that call
    emitted,       \* the speed_updated events that call emitted
    escaped,       \* whether an error left that call
    pre            \* the stored snapshot as it was before that call

autoVars == <<system, app_path, store, checked, op, fault, ret, caught,
              raised, warned, prevOp, storePre>>

monVars == <<upload_speed, download_speed, last_upload, last_download,
             last_time, now, net_io, read_ok, emitted, escaped, pre>>

vars == <<autoVars, monVars>>

----------------------------------------------------------------------------
(* The environment of the AutoStartManager *)

Systems == {"Windows", "Linux", "Darwin", "Other"}
Supported == {"Windows", "Linux", "Darwin"}

\* executable paths: the running one and the one of an older installation
Paths == {"pathA", "pathB"}

NoValue == "NoValue"          \* QueryValueEx / DeleteValue find no value
NoFile == [exists |-> FALSE, content |-> <<>>, executable |-> FALSE]

NoFault == "none"
\* the backend calls of the three operations that can raise
Faults == {NoFault, "OpenKey", "SetValueEx", "makedirs", "open", "write",
           "chmod", "remove"}
\* the exit status of os.system("launchctl ..."), which the code ignores
LaunchctlOk == BOOLEAN

\* A store: the Run value named app_name (Windows); the autostart or
\* LaunchAgents directory and the .desktop or .plist file in it, whose
\* content is the sequence of executable paths written to it; whether launchd
\* has the agent loaded (macOS).
File(c, x) == [exists |-> TRUE, content |-> c, executable |-> x]

InitialStores(sys) ==
    LET blank == [reg |-> NoValue, dir |-> FALSE, file |-> NoFile,
                  loaded |-> FALSE]
        files == {NoFile} \cup {File(<<p>>, x) : p \in Paths, x \in BOOLEAN}
    IN  CASE sys = "Windows" ->
               {[blank EXCEPT !.reg = v] : v \in Paths \cup {NoValue}}
          [] sys = "Linux" ->
               {blank} \cup {[blank EXCEPT !.dir = TRUE, !.file = f] :
                                f \in files}
          [] sys = "Darwin" ->
               {blank} \cup
               {[blank EXCEPT !.dir = TRUE, !.file = f, !.loaded = l] :
                    f \in files, l \in BOOLEAN}
          [] OTHER -> {blank}

----------------------------------------------------------------------------
(* AutoStartManager *)

Returned(st, r) == [store |-> st, exc |-> FALSE, ret |-> r]
Raise(st) == [store |-> st, exc |-> TRUE, ret |-> FALSE]

\* is_enabled comparing the Run value with the app name instead of the path
is_enabled_try_name(sys, path, st, f) ==
    CASE sys = "Windows" ->
           IF f = "OpenKey" THEN Raise(st)
           ELSE IF st.reg = NoValue THEN Returned(st, FALSE)
           ELSE Returned(st, st.reg = "InternetSpeedMonitor")
      [] sys = "Linux" -> Returned(st, st.file.exists)
      [] sys = "Darwin" -> Returned(st, st.file.exists)
      [] OTHER -> Returned(st, FALSE)

\* is_enabled not comparing the Run value at all
is_enabled_try_exists(sys, path, st, f) ==
    CASE sys = "Windows" ->
           IF f = "OpenKey" THEN Raise(st)
           ELSE Returned(st, st.reg # NoValue)
      [] sys = "Linux" -> Returned(st, st.file.exists)
      [] sys = "Darwin" -> Returned(st, st.file.exists)
      [] OTHER -> Returned(st, FALSE)

\* the try block of is_enabled
is_enabled_try(sys, path, st, f) ==
    CASE sys = "Windows" ->
           IF f = "OpenKey" THEN Raise(st)
           ELSE IF st.reg = NoValue THEN Returned(st, FALSE)
           ELSE Returned(st, st.reg = path)
      [] sys = "Linux" -> Returned(st, st.file.exists)
      [] sys = "Darwin" -> Returned(st, st.file.exists)
      [] OTHER -> Returned(st, FALSE)

\* no except clause: the error goes on to the caller
ExceptMissing(r) ==
    [store |-> r.store, ret |-> r.ret, caught |-> FALSE, raised |-> r.exc]

\* except Exception: log, return False
ExceptReturnFalse(r) ==
    [store |-> r.store, ret |-> IF r.exc THEN FALSE ELSE r.ret,
     caught |-> r.exc, raised |-> FALSE]

is_enabled(sys, path, st, f) == ExceptReturnFalse(is_enabled_try(sys, path, st, f))

\* os.makedirs(dir) when the directory is missing
MakeDirs(st) == [st EXCEPT !.dir = TRUE]

\* open(file, "a"): keeps what the file holds
OpenAppend(st) ==
    [st EXCEPT !.file = File(st.file.content,
                             st.file.exists /\ st.file.executable)]

\* open(file, "w"): creates the file or truncates it, keeping its mode
OpenW(st) ==
    [st EXCEPT !.file = File(<<>>, st.file.exists /\ st.file.executable)]

\* f.write(...): the entry written names app_path as the executable
Write(st, path) == [st EXCEPT !.file.content = Append(@, path)]

\* the directory, open and write steps that Linux and macOS share
WriteEntry(st, path, f) ==
    IF ~st.dir /\ f = "makedirs" THEN Raise(st)
    ELSE LET s1 == IF st.dir THEN st ELSE MakeDirs(st)
         IN  IF f = "open" THEN Raise(s1)
             ELSE IF f = "write" THEN Raise(OpenW(s1))
             ELSE Returned(Write(OpenW(s1), path), TRUE)

\* the try block of enable
enable_try(sys, path, st, f, lc) ==
    CASE sys = "Windows" ->
           IF f \in {"OpenKey", "SetValueEx"} THEN Raise(st)
           ELSE Returned([st EXCEPT !.reg = path], TRUE)
      [] sys = "Linux" ->
           LET w == WriteEntry(st, path, f)
           IN  IF w.exc THEN w
               ELSE IF f = "chmod" THEN Raise(w.store)
               ELSE Returned([w.store EXCEPT !.file.executable = TRUE], TRUE)
      [] sys = "Darwin" ->
           LET w == WriteEntry(st, path, f)
           IN  IF w.exc THEN w
               ELSE Returned([w.store EXCEPT !.loaded = @ \/ lc], TRUE)
      [] OTHER -> Returned(st, FALSE)

enable(sys, path, st, f, lc) == ExceptReturnFalse(enable_try(sys, path, st, f, lc))

\* disable without the inner except WindowsError around DeleteValue
disable_try_nocatch(sys, st, f, lc) ==
    CASE sys = "Windows" ->
           IF f = "OpenKey" \/ st.reg = NoValue THEN Raise(st)
           ELSE Returned([st EXCEPT !.reg = NoValue], TRUE)
      [] sys = "Linux" ->
           IF ~st.file.exists THEN Returned(st, TRUE)
           ELSE IF f = "remove" THEN Raise(st)
           ELSE Returned([st EXCEPT !.file = NoFile], TRUE)
      [] sys = "Darwin" ->
           IF ~st.file.exists THEN Returned(st, TRUE)
           ELSE LET s1 == [st EXCEPT !.loaded = @ /\ ~lc]
                IN  IF f = "remove" THEN Raise(s1)
                    ELSE Returned([s1 EXCEPT !.file = NoFile], TRUE)
      [] OTHER -> Returned(st, FALSE)

\* the try block of disable; DeleteValue raises WindowsError when the value
\* is missing, which the inner except passes over
disable_try(sys, st, f, lc) ==
    CASE sys = "Windows" ->
           IF f = "OpenKey" THEN Raise(st)
           ELSE IF st.reg = NoValue THEN Returned(st, TRUE)
           ELSE Returned([st EXCEPT !.reg = NoValue], TRUE)
      [] sys = "Linux" ->
           IF ~st.file.exists THEN Returned(st, TRUE)
           ELSE IF f = "remove" THEN Raise(st)
           ELSE Returned([st EXCEPT !.file = NoFile], TRUE)
      [] sys = "Darwin" ->
           IF ~st.file.exists THEN Returned(st, TRUE)
           ELSE LET s1 == [st EXCEPT !.loaded = @ /\ ~lc]
                IN  IF f = "remove" THEN Raise(s1)
                    ELSE Returned([s1 EXCEPT !.file = NoFile], TRUE)
      [] OTHER -> Returned(st, FALSE)

disable(sys, st, f, lc) == ExceptReturnFalse(disable_try(sys, st, f, lc))

----------------------------------------------------------------------------
(* InternetSpeedApp: the "Start with System" menu action *)

\* toggle_autostart, the action having just been set to is_checked by the click
toggle_autostart(sys, path, st, is_checked, f, lc) ==
    LET r == IF is_checked THEN enable(sys, path, st, f, lc)
             ELSE disable(sys, st, f, lc)
    IN  [store |-> r.store, ret |-> r.ret, caught |-> r.caught,
         raised |-> r.raised,
         warned |-> ~r.ret,
         checked |-> IF ~r.ret THEN ~is_checked ELSE is_checked]

----------------------------------------------------------------------------
(* The manager's state machine *)

\* AutoStartManager() made, setChecked(is_enabled()) done
ManagerInit ==
    /\ system \in Systems
    /\ app_path \in Paths
    /\ store \in InitialStores(system)
    /\ checked = is_enabled(system, app_path, store, NoFault).ret
    /\ op = "init" /\ prevOp = "init" /\ fault = NoFault
    /\ ret = FALSE /\ caught = FALSE /\ raised = FALSE /\ warned = FALSE
    /\ storePre = store

Ran(name, f, r) ==
    /\ op' = name /\ prevOp' = op /\ fault' = f
    /\ storePre' = store /\ store' = r.store
    /\ ret' = r.ret /\ caught' = r.caught /\ raised' = r.raised
    /\ UNCHANGED <<system, app_path, monVars>>

CallIsEnabled(F) ==
    \E f \in F :
        /\ Ran("is_enabled", f, is_enabled(system, app_path, store, f))
        /\ warned' = FALSE
        /\ UNCHANGED checked

CallEnable(F, L) ==
    \E f \in F, lc \in L :
        /\ Ran("enable", f, enable(system, app_path, store, f, lc))
        /\ warned' = FALSE
        /\ UNCHANGED checked

CallDisable(F, L) ==
    \E f \in F, lc \in L :
        /\ Ran("disable", f, disable(system, store, f, lc))
        /\ warned' = FALSE
        /\ UNCHANGED checked

ClickAutostart(F, L) ==
    \E f \in F, lc \in L :
        LET r == toggle_autostart(system, app_path, store, ~checked, f, lc)
        IN  /\ Ran("toggle_autostart", f, r)
            /\ warned' = r.warned
            /\ checked' = r.checked

IsEnabledOk == CallIsEnabled({NoFault})
EnableOk == CallEnable({NoFault}, {TRUE})
DisableOk == CallDisable({NoFault}, {TRUE})
ToggleOk == ClickAutostart({NoFault}, {TRUE})

IsEnabledAny == CallIsEnabled(Faults)
EnableAny == CallEnable(Faults, LaunchctlOk)
DisableAny == CallDisable(Faults, LaunchctlOk)
ToggleAny == ClickAutostart(Faults, LaunchctlOk)

----------------------------------------------------------------------------
(* SpeedMonitor *)

MaxTick == 3
TimerPeriod == 1000          \* self.timer.start(1000)
MinInterval == 100           \* time_diff < 0.1, in ms
\* ms between the clock readings modelled: readings fall below, on and above
\* the 0.1 s guard
Step == MinInterval \div 2
MsPerSecond == 1000          \* time.time() counts seconds
KB == 1024

\* clock readings: a few closely spaced ones and the timer's one-second tick
Instants == {k * Step : k \in 0..MaxTick} \cup {TimerPeriod}

\* cumulative byte counters the OS can report; a reset or a wrap makes a later
\* reading smaller than an earlier one
SentValues == {0, 1000, 2024}
RecvValues == {0, 2000, 3048}

\* Exact rationals n/d in lowest terms with d > 0 stand for the floats.
Abs(n) == IF n < 0 THEN -n ELSE n

RECURSIVE GCD(_, _)
GCD(a, b) == IF b = 0 THEN a ELSE GCD(b, a % b)

Rat(n, d) ==
    LET g == GCD(Abs(n), Abs(d))
        sgn == IF d < 0 THEN -1 ELSE 1
    IN  [num |-> sgn * (n \div g), den |-> sgn * (d \div g)]

Zero == Rat(0, 1)

\* bytes / seconds, the division by 1024 forgotten
PerSecondBytes(bytes, ms) == Rat(bytes * MsPerSecond, ms)

\* bytes / seconds / 1024, the seconds given in ms
PerSecondKB(bytes, ms) == Rat(bytes * MsPerSecond, ms * KB)

Monitor == [upload_speed |-> upload_speed, download_speed |-> download_speed,
            last_upload |-> last_upload, last_download |-> last_download,
            last_time |-> last_time]

\* update_speed refreshing last_time before it returns early
update_speed_try_restamp(mon, counters, ok, current_time) ==
    IF ~ok THEN [mon |-> mon, emit |-> <<>>, exc |-> TRUE]
    ELSE LET time_diff == current_time - mon.last_time
             upload_diff == counters.bytes_sent - mon.last_upload
             download_diff == counters.bytes_recv - mon.last_download
             up == PerSecondKB(upload_diff, time_diff)
             down == PerSecondKB(download_diff, time_diff)
         IN  IF time_diff < MinInterval
             THEN [mon |-> [mon EXCEPT !.last_time = current_time],
                   emit |-> <<>>, exc |-> FALSE]
             ELSE [mon |-> [upload_speed |-> up, download_speed |-> down,
                            last_upload |-> counters.bytes_sent,
                            last_download |-> counters.bytes_recv,
                            last_time |-> current_time],
                   emit |-> << <<up, down>> >>,
                   exc |-> FALSE]

\* the try block of update_speed
update_speed_try(mon, counters, ok, current_time) ==
    IF ~ok THEN [mon |-> mon, emit |-> <<>>, exc |-> TRUE]
    ELSE LET time_diff == current_time - mon.last_time
             upload_diff == counters.bytes_sent - mon.last_upload
             download_diff == counters.bytes_recv - mon.last_download
             up == PerSecondKB(upload_diff, time_diff)
             down == PerSecondKB(download_diff, time_diff)
         IN  IF time_diff < MinInterval
             THEN [mon |-> mon, emit |-> <<>>, exc |-> FALSE]
             ELSE [mon |-> [upload_speed |-> up, download_speed |-> down,
                            last_upload |-> counters.bytes_sent,
                            last_download |-> counters.bytes_recv,
                            last_time |-> current_time],
                   emit |-> << <<up, down>> >>,
                   exc |-> FALSE]

\* no except clause: the error leaves update_speed
ExceptNone(r) == [mon |-> r.mon, emit |-> r.emit, escaped |-> r.exc]

\* except Exception: log
ExceptLog(r) == [mon |-> r.mon, emit |-> r.emit, escaped |-> FALSE]

update_speed(mon, counters, ok, current_time) ==
    ExceptLog(update_speed_try(mon, counters, ok, current_time))

Snapshot == [last_upload |-> last_upload, last_download |-> last_download,
             last_time |-> last_time]

\* SpeedMonitor.__init__ having read the counters
MonInit ==
    /\ upload_speed = Zero /\ download_speed = Zero
    /\ last_upload \in SentValues /\ last_download \in RecvValues
    /\ last_time = 0 /\ now = 0
    /\ net_io = [bytes_sent |-> last_upload, bytes_recv |-> last_download]
    /\ read_ok = TRUE /\ emitted = <<>> /\ escaped = FALSE
    /\ pre = Snapshot

\* one call of update_speed, by the timer or by any other caller
UpdateSpeed ==
    \E s \in SentValues, r \in RecvValues, ok \in BOOLEAN, t \in Instants :
        /\ t >= now
        /\ LET c == [bytes_sent |-> s, bytes_recv |-> r]
               u == update_speed(Monitor, c, ok, t)
           IN  /\ upload_speed' = u.mon.upload_speed
               /\ download_speed' = u.mon.download_speed
               /\ last_upload' = u.mon.last_upload
               /\ last_download' = u.mon.last_download
               /\ last_time' = u.mon.last_time
               /\ emitted' = u.emit
               /\ escaped' = u.escaped
               /\ net_io' = c
        /\ now' = t /\ read_ok' = ok /\ pre' = Snapshot
        /\ UNCHANGED autoVars

MonIdle ==
    /\ upload_speed = Zero /\ download_speed = Zero
    /\ last_upload = 0 /\ last_download = 0 /\ last_time = 0 /\ now = 0
    /\ net_io = [bytes_sent |-> 0, bytes_recv |-> 0]
    /\ read_ok = TRUE /\ emitted = <<>> /\ escaped = FALSE
    /\ pre = Snapshot

AutoIdle ==
    /\ system = "Other" /\ app_path = "pathA"
    /\ store \in InitialStores(system)
    /\ checked = FALSE
    /\ op = "init" /\ prevOp = "init" /\ fault = NoFault
    /\ ret = FALSE /\ caught = FALSE /\ raised = FALSE /\ warned = FALSE
    /\ storePre = store

----------------------------------------------------------------------------
(* Specifications *)

AutoInit == ManagerInit /\ MonIdle
AutoNext == IsEnabledOk \/ EnableOk \/ DisableOk \/ ToggleOk
AutoStartSpec == AutoInit /\ [][AutoNext]_vars

FaultyNext == IsEnabledAny \/ EnableAny \/ DisableAny \/ ToggleAny
FaultySpec == AutoInit /\ [][FaultyNext]_vars

SamplerInit == MonInit /\ AutoIdle
SamplerNext == UpdateSpeed
SamplerSpec == SamplerInit /\ [][SamplerNext]_vars

----------------------------------------------------------------------------
(* What the claims speak of *)

\* a registration for the app name exists in the platform's store
Registered(sys, st) ==
    IF sys = "Windows" THEN st.reg # NoValue ELSE st.file.exists

\* the executable paths the registrations for the app name record
Registrations(sys, st) ==
    IF sys = "Windows"
    THEN (IF st.reg = NoValue THEN <<>> ELSE <<st.reg>>)
    ELSE st.file.content

\* A backend call of the last manager operation raised.  The exit status of
\* launchctl is no such error: os.system returns it and the code drops it.
BackendFailed ==
    CASE op = "is_enabled" -> system = "Windows" /\ fault = "OpenKey"
      [] op = "enable" ->
           \/ system = "Windows" /\ fault \in {"OpenKey", "SetValueEx"}
           \/ /\ system \in {"Linux", "Darwin"}
              /\ \/ fault = "makedirs" /\ ~storePre.dir
                 \/ fault \in {"open", "write"}
           \/ system = "Linux" /\ fault = "chmod"
      [] op = "disable" ->
           \/ system = "Windows" /\ fault = "OpenKey"
           \/ /\ system \in {"Linux", "Darwin"}
              /\ fault = "remove" /\ storePre.file.exists
      [] OTHER -> FALSE

\* rate is bytes / (ms / 1000) / 1024
RateIs(rate, bytes, ms) ==
    /\ rate.den > 0
    /\ rate.num * ms * KB = rate.den * bytes * MsPerSecond

\* the time_diff of the last update_speed call, and of the next one
LastDiff == now - pre.last_time
NextDiff == now' - last_time

----------------------------------------------------------------------------
(* Claims *)

\* C1: on Windows, Linux and macOS, from any store state, is_enabled()
\* called right after enable() returns true and is_enabled() called right
\* after disable() returns false.
C1_QueryAfterEnableDisable ==
    (system \in Supported /\ op = "is_enabled"
        /\ prevOp \in {"enable", "disable"})
    => ret = (prevOp = "enable")

C1_Witness ==
    /\ system = "Windows" /\ op = "is_enabled" /\ prevOp = "enable"
    /\ ret = TRUE /\ store.reg = app_path

\* C2 as stated: is_enabled() returns true iff a registration for the app
\* name exists and the path it records equals app_path.
C2_TrueIffPathMatches ==
    op = "is_enabled" =>
        ret = (/\ Registered(system, store)
               /\ Registrations(system, store) = <<app_path>>)

\* C2 as amended: is_enabled() returns true iff a registration for the app
\* name exists and, on Windows, the path it records equals app_path; on Linux
\* and macOS the recorded path is not compared.
C2_TrueIffRegistered ==
    op = "is_enabled" =>
        ret = (/\ Registered(system, store)
               /\ system \in Supported
               /\ (system = "Windows" => store.reg = app_path))

C2_Witness ==
    /\ system = "Linux" /\ op = "is_enabled" /\ ret = TRUE
    /\ Registrations(system, store) # <<app_path>>

\* C3: a call of update_speed whose time_diff is below 0.1 s emits nothing and
\* leaves last_upload, last_download and last_time alone, and the call after
\* it whose time_diff is at least 0.1 s emits the rates against the snapshot
\* from before the skipped call, over the whole interval since that snapshot.
C3_SkipKeepsSnapshot ==
    [][/\ (read_ok' /\ NextDiff < MinInterval)
            => (emitted' = <<>> /\ Snapshot' = Snapshot)
       /\ (read_ok /\ LastDiff < MinInterval
             /\ read_ok' /\ now' - pre.last_time >= MinInterval)
            => /\ Len(emitted') = 1
               /\ RateIs(emitted'[1][1],
                         net_io'.bytes_sent - pre.last_upload,
                         now' - pre.last_time)
               /\ RateIs(emitted'[1][2],
                         net_io'.bytes_recv - pre.last_download,
                         now' - pre.last_time)]_vars

C3_Witness ==
    /\ read_ok /\ now = Step /\ pre.last_time = 0
    /\ emitted = <<>> /\ Snapshot = pre
    /\ net_io.bytes_sent # last_upload

\* the worked example: {1000, 2000} stored at t = 0, {2024, 3048} read at 1.0 s
C4_Example ==
    /\ pre = [last_upload |-> 1000, last_download |-> 2000, last_time |-> 0]
    /\ read_ok /\ now = MsPerSecond
    /\ net_io = [bytes_sent |-> 2024, bytes_recv |-> 3048]

C4_General ==
    (/\ read_ok /\ LastDiff >= MinInterval
     /\ net_io.bytes_sent >= pre.last_upload
     /\ net_io.bytes_recv >= pre.last_download)
    => /\ Len(emitted) = 1
       /\ RateIs(emitted[1][1], net_io.bytes_sent - pre.last_upload, LastDiff)
       /\ RateIs(emitted[1][2], net_io.bytes_recv - pre.last_download, LastDiff)
       /\ upload_speed = emitted[1][1] /\ download_speed = emitted[1][2]
       /\ Snapshot = [last_upload |-> net_io.bytes_sent,
                      last_download |-> net_io.bytes_recv,
                      last_time |-> now]

\* C4 as stated: a call of update_speed that reads counters not below the
\* stored ones with time_diff at least 0.1 s emits exactly one event, carrying
\* (bytes_sent - last_upload) / time_diff / 1024 and
\* (bytes_recv - last_download) / time_diff / 1024, and stores the counters
\* and the time it read; in the worked example both rates are 1.0.
C4_RatesAndExample ==
    /\ C4_General
    /\ C4_Example => emitted = << <<Rat(1, 1), Rat(1, 1)>> >>

\* C4 as amended: the same, the worked example giving an upload rate of 1.0
\* and a download rate of 1048 / 1024.
C4_RatesAndSnapshot ==
    /\ C4_General
    /\ C4_Example => emitted = << <<Rat(1, 1), Rat(1048, 1024)>> >>

C4_Witness ==
    /\ C4_Example
    /\ Len(emitted) = 1
    /\ emitted[1][1] = Rat(1, 1) /\ emitted[1][2] = Rat(131, 128)

\* C5: every rate update_speed emits, and upload_speed and download_speed,
\* are never negative, whatever the counters read.
C5_RatesNonNegative ==
    /\ upload_speed.num >= 0 /\ download_speed.num >= 0
    /\ \A i \in 1..Len(emitted) :
          emitted[i][1].num >= 0 /\ emitted[i][2].num >= 0

\* C6: after every toggle_autostart, whether enable() or disable() succeeded
\* or failed, the action's checked state is what is_enabled() returns, and a
\* failed operation showed the warning.
C6_CheckboxMatchesStore ==
    op = "toggle_autostart" =>
        /\ checked = is_enabled(system, app_path, store, NoFault).ret
        /\ ~ret => warned

\* C7: a call of update_speed whose counter read fails lets no error out,
\* emits nothing and leaves last_upload, last_download and last_time alone,
\* and the next call that reads the counters with time_diff at least 0.1 s
\* emits the rates over the whole interval since the stored snapshot.
C7_FailedReadIsNoOp ==
    [][/\ ~read_ok'
            => (emitted' = <<>> /\ Snapshot' = Snapshot /\ ~escaped')
       /\ (~read_ok /\ read_ok' /\ now' - pre.last_time >= MinInterval)
            => /\ Len(emitted') = 1
               /\ RateIs(emitted'[1][1],
                         net_io'.bytes_sent - pre.last_upload,
                         now' - pre.last_time)
               /\ RateIs(emitted'[1][2],
                         net_io'.bytes_recv - pre.last_download,
                         now' - pre.last_time)]_vars

C7_Witness ==
    /\ ~read_ok /\ now > pre.last_time
    /\ emitted = <<>> /\ Snapshot = pre /\ ~escaped

C9_DisableWhenAbsent ==
    (system \in Supported /\ op = "disable"
        /\ ~Registered(system, storePre))
    => (ret = TRUE /\ ~Registered(system, store))

C9_Witness ==
    /\ system = "Windows" /\ op = "disable" /\ prevOp = "disable"
    /\ storePre.reg = NoValue /\ ret = TRUE

\* C10: on Windows, Linux and macOS, a second enable() right after a first
\* leaves the store as the first left it, with exactly one registration for
\* the app name, recording app_path.
C10_EnableTwice ==
    (system \in Supported /\ op = "enable" /\ prevOp = "enable")
    => /\ ret = TRUE
       /\ store = storePre
       /\ Registrations(system, store) = <<app_path>>

C10_Witness ==
    /\ system = "Linux" /\ op = "enable" /\ prevOp = "enable"
    /\ Len(store.file.content) = 1 /\ store.file.executable

====
